---- MODULE Spec2Model ----
(***************************************************************************)
(* A model of tagtrics (src/tagtrics.go): the reflection-driven binder     *)
(* initializeFieldTagPath that NewMetricTags runs over a metrics struct,   *)
(* and the Run/Stop sampling loop of a MetricTags handle.                  *)
(*                                                                         *)
(* Strings are sequences of one-character strings, so that strings.ToLower *)
(* and the prefix + separator + tag concatenation are computed, not        *)
(* assumed.  Durations and times are counted in minutes, the unit of the   *)
(* two default sampling intervals.                                         *)
(***************************************************************************)
EXTENDS Integers, Sequences, FiniteSets, TLC

VARIABLES
    \* ---- the metrics struct handed to NewMetricTags --------------------
    metricsData,        \* its Go type: a sequence of field descriptors
    mapKeys,            \* path of a map field -> set of keys it holds
    fieldVal,           \* path of a field -> id of the instrument set in it
                        \*   (a path outside its domain: the field is untouched)
    boundKeys,          \* mapKeys as they were when binding ran
    \* ---- the MetricTags handle ----------------------------------------
    registry,           \* m.registry: which registry the handle was given
    separator,          \* m.separator
    flushInterval,      \* m.flushInterval
    StatsGCCollection,  \* m.StatsGCCollection
    StatsMemCollection, \* m.StatsMemCollection
    bindState,          \* "new", "bound" or "panicked" (NewMetricTags)
    \* ---- go-metrics ---------------------------------------------------
    registries,         \* registry -> (name -> instrument id)
    registerLog,        \* the Register calls made, in order
    instruments,        \* instrument id -> [kind, count]
    snapshot,           \* what the last ToJSON returned: name -> count
    \* ---- Run and Stop -------------------------------------------------
    now,                \* the clock m.nowHandler reads
    runPc,              \* where the Run goroutine is
    stopPc,             \* where the caller of Stop is
    updateTime,         \* Run's local updateTime
    gcTime,             \* Run's local gcTime
    memTime,            \* Run's local memTime
    deadline,           \* when the timer of the current time.After fires
    flushCount,         \* invocations of m.updateHandler so far
    flushReturned,      \* returns of m.updateHandler so far
    finalFlush,         \* the quit branch's handler call: "none", "running", "returned"
    gcCaptures,         \* CaptureDebugGCStatsOnce calls so far
    memCaptures,        \* CaptureRuntimeMemStatsOnce calls so far
    runtimeRegistered,  \* Run registered the runtime collectors
    flushAtStop,        \* flushCount when Stop was called
    runPcAtStop         \* runPc when Stop was called ("" before that)

bindVars == <<metricsData, mapKeys, fieldVal, boundKeys, registry, separator,
              bindState, registries, registerLog, instruments, snapshot>>

loopVars == <<flushInterval, StatsGCCollection, StatsMemCollection, now, runPc,
              stopPc, updateTime, gcTime, memTime, deadline, flushCount,
              flushReturned, finalFlush, gcCaptures, memCaptures,
              runtimeRegistered, flushAtStop, runPcAtStop>>

vars == <<bindVars, loopVars>>

----------------------------------------------------------------------------
(* Bounds of the model                                                     *)

\* the clock stops at MaxTime
MaxTime == 6
\* flush intervals run from 1 to MaxFlush
MaxFlush == 3
\* the sampling intervals a caller sets run from 1 to MaxStats
MaxStats == 2
\* a struct of the enumerated schemas has at most MaxFields top-level fields
MaxFields == 2
\* the counters of a struct are raised to at most MaxCount in total
MaxCount == 3

(* Program constants                                                       *)

\* DefaultStatsMemCollection = 5 * time.Minute
DefaultStatsMemCollection == 5
\* DefaultStatsGCCollection = 1 * time.Minute
DefaultStatsGCCollection == 1
\* metrics.NewUniformSample(1028)
ReservoirSize == 1028

----------------------------------------------------------------------------
(* Strings                                                                 *)

UpperCase == <<"A","B","C","D","E","F","G","H","I","J","K","L","M",
               "N","O","P","Q","R","S","T","U","V","W","X","Y","Z">>
LowerCase == <<"a","b","c","d","e","f","g","h","i","j","k","l","m",
               "n","o","p","q","r","s","t","u","v","w","x","y","z">>

\* unicode.ToLower on one character
LowerChar(c) ==
    IF \E i \in 1..Len(UpperCase) : UpperCase[i] = c
    THEN LowerCase[CHOOSE i \in 1..Len(UpperCase) : UpperCase[i] = c]
    ELSE c

\* strings.ToLower
ToLower(s) == [i \in 1..Len(s) |-> LowerChar(s[i])]

----------------------------------------------------------------------------
(* The metrics struct: Go types (reflect.Type) and values (reflect.Value)  *)

\* A struct field as reflect sees it: field.Name, field.Tag.Get("metric"),
\* field.Type.Kind(), field.Type.String(); for a map its key kind and what
\* its values are; for a struct (or a map of struct pointers) the fields below.
Fld(name, tag, kind, typ, key, elem, fields) ==
    [name |-> name, tag |-> tag, kind |-> kind, typ |-> typ, key |-> key,
     elem |-> elem, fields |-> fields]

Leaf(name, tag, kind, typ) == Fld(name, tag, kind, typ, "", "", <<>>)

\* the five go-metrics instrument types are interfaces
Counter(name, tag)   == Leaf(name, tag, "Interface", "metrics.Counter")
Timer(name, tag)     == Leaf(name, tag, "Interface", "metrics.Timer")
Meter(name, tag)     == Leaf(name, tag, "Interface", "metrics.Meter")
Gauge(name, tag)     == Leaf(name, tag, "Interface", "metrics.Gauge")
Histogram(name, tag) == Leaf(name, tag, "Interface", "metrics.Histogram")
Struct(name, tag, fields) == Fld(name, tag, "Struct", "struct", "", "", fields)
\* map[string]*T, T a struct with the given fields
Map(name, tag, fields) ==
    Fld(name, tag, "Map", "map[string]*T", "String", "PtrStruct", fields)

\* the registries a caller can pass: metrics.DefaultRegistry (process-wide)
\* or one of its own, made by metrics.NewRegistry()
Registries == {"DefaultRegistry", "NewRegistry"}

\* the keys a map of the schema can hold
Keys == {<<"t","1">>, <<"t","2">>}

\* the orders in which val.MapKeys() can return the keys (unspecified in Go)
KeyOrders == {o \in [1..Cardinality(Keys) -> Keys] :
                 \A i, j \in 1..Cardinality(Keys) : i # j => o[i] # o[j]}

----------------------------------------------------------------------------
(* go-metrics, as far as the binder uses it                                *)

\* the instrument a leaf of that type string gets, "" for any other type:
\* the cases of the switch on field.Type.String()
InstrumentKind(typ) ==
    CASE typ = "metrics.Counter"   -> "Counter"
      [] typ = "metrics.Timer"     -> "Timer"
      [] typ = "metrics.Meter"     -> "Meter"
      [] typ = "metrics.Gauge"     -> "Gauge"
      [] typ = "metrics.Histogram" -> "Histogram"
      [] OTHER                     -> ""

\* metrics.NewCounter(), NewTimer(), NewMeter(), NewGauge(),
\* NewHistogram(NewUniformSample(1028)): a fresh instrument
NewInstrument(kind) ==
    [kind |-> kind, count |-> 0,
     sample |-> IF kind = "Histogram" THEN ReservoirSize ELSE 0]

\* Registry.Register(name, i) on one registry (name -> id): the spec's
\* stated default, a later registration replaces an earlier one
RegistryRegister(r, name, id) == (name :> id) @@ r

\* metrics.Register(name, i): the package-level function registers in
\* metrics.DefaultRegistry
Register(regs, name, id) ==
    [regs EXCEPT !["DefaultRegistry"] = RegistryRegister(@, name, id)]

----------------------------------------------------------------------------
(* initializeFieldTagPath                                                  *)

\* The traversal threads a record st: the Register calls so far (log), the
\* registries, the instruments made, the fields set, and whether reflect
\* panicked.  order is the order val.MapKeys() returns keys in.

\* the "Found a field, initialize" branch: the switch on field.Type.String()
InitializeLeaf(field, path, tag, st) ==
    LET kind == InstrumentKind(field.typ)
        id   == Len(st.insts) + 1
    IN  IF kind = "" THEN st
        ELSE [st EXCEPT
                !.insts = Append(@, NewInstrument(kind)),
                !.regs  = Register(@, tag, id),
                !.log   = Append(@, [name |-> tag, kind |-> kind, id |-> id,
                                     path |-> path]),
                !.vals  = (path :> id) @@ @]

\* tag := field.Tag.Get("metric"); if tag == "" { tag = strings.ToLower(field.Name) }
Segment(field) == IF field.tag = <<>> THEN ToLower(field.name) ELSE field.tag

\* a slip: the prefix and the separator are put in front without the
\* prefix != "" test
FullName_AlwaysPrefix(prefix, sep, tag) == prefix \o sep \o tag

\* if prefix != "" { tag = prefix + m.separator + tag }
FullName(prefix, sep, tag) == IF prefix # <<>> THEN prefix \o sep \o tag ELSE tag

RECURSIVE initializeFieldTagPath(_, _, _, _, _, _)
RECURSIVE InitializeMapEntries(_, _, _, _, _, _)
RECURSIVE InitializeMapEntries_NoKey(_, _, _, _, _, _)

\* a slip: the loop over the keys is left after the first key returned
InitializeMapEntries_FirstOnly(field, path, tag, ks, order, st) ==
    IF st.panicked \/ ks = <<>> THEN st
    ELSE IF field.elem # "PtrStruct" THEN [st EXCEPT !.panicked = TRUE]
    ELSE initializeFieldTagPath(field.fields, Append(path, Head(ks)),
                                tag \o separator \o Head(ks), 1, order, st)

\* a slip: the entries are traversed under the map's own name, the key left out
InitializeMapEntries_NoKey(field, path, tag, ks, order, st) ==
    IF st.panicked \/ ks = <<>> THEN st
    ELSE IF field.elem # "PtrStruct" THEN [st EXCEPT !.panicked = TRUE]
    ELSE InitializeMapEntries_NoKey(field, path, tag, Tail(ks), order,
            initializeFieldTagPath(field.fields, Append(path, Head(ks)),
                                   tag, 1, order, st))

\* for _, k := range val.MapKeys() {
\*     m.initializeFieldTagPath(val.MapIndex(k).Elem(), tag+m.separator+k.String()) }
\* ks: the keys still to visit.  Elem() panics on a value that is neither a
\* pointer nor an interface.
InitializeMapEntries(field, path, tag, ks, order, st) ==
    IF st.panicked \/ ks = <<>> THEN st
    ELSE IF field.elem # "PtrStruct" THEN [st EXCEPT !.panicked = TRUE]
    ELSE InitializeMapEntries(field, path, tag, Tail(ks), order,
            initializeFieldTagPath(field.fields, Append(path, Head(ks)),
                                   tag \o separator \o Head(ks), 1, order, st))

\* the loop over fieldType.NumField() fields, from field i on
initializeFieldTagPath(fields, path, prefix, i, order, st) ==
    IF st.panicked \/ i > Len(fields) THEN st
    ELSE LET field == fields[i]
             tag   == FullName(prefix, separator, Segment(field))
             p     == Append(path, field.name)
             ks    == IF p \in DOMAIN mapKeys
                      THEN SelectSeq(order, LAMBDA k : k \in mapKeys[p])
                      ELSE <<>>
             st1   == IF field.kind = "Struct"
                      THEN initializeFieldTagPath(field.fields, p, tag, 1, order, st)
                      ELSE IF field.kind = "Map" /\ field.key = "String"
                      THEN InitializeMapEntries(field, p, tag, ks, order, st)
                      ELSE InitializeLeaf(field, p, tag, st)
         IN  initializeFieldTagPath(fields, path, prefix, i + 1, order, st1)

----------------------------------------------------------------------------
(* The metrics structs bound                                               *)

\* struct { Hits metrics.Counter `metric:"n"`; Gauge metrics.Gauge }
SubFields ==
    << Counter(<<"H","i","t","s">>, <<"n">>), Gauge(<<"G","a","u","g","e">>, <<>>) >>

\* struct { Rate metrics.Meter; Size metrics.Histogram `metric:"sz"`; Port int }
HttpFields ==
    << Meter(<<"R","a","t","e">>, <<>>), Histogram(<<"S","i","z","e">>, <<"s","z">>),
       Leaf(<<"P","o","r","t">>, <<>>, "Int", "int") >>

\* the fields a struct is put together from; no two share a Go identifier
FieldPool ==
    { Counter(<<"H","i","t","s">>, <<"n">>),
      Meter(<<"N">>, <<>>),
      Timer(<<"R","T">>, <<"L","a","t">>),
      Leaf(<<"P","o","r","t">>, <<"p">>, "Int", "int"),
      Leaf(<<"N","e","x","t">>, <<>>, "Ptr", "*T"),
      Struct(<<"S","u","b">>, <<"s">>, SubFields),
      Struct(<<"C","o","n","n">>, <<>>,
             << Struct(<<"H","t","t","p">>, <<"h">>, HttpFields) >>),
      Map(<<"M","a","p">>, <<>>, << Counter(<<"C">>, <<>>) >>),
      Struct(<<"G">>, <<>>, << Map(<<"B","y">>, <<"b">>, << Gauge(<<"V">>, <<>>) >>) >>),
      Fld(<<"B","y","I","d">>, <<>>, "Map", "map[int]*T", "Int", "PtrStruct",
          << Counter(<<"C">>, <<>>) >>),
      Fld(<<"T","a","g","s">>, <<>>, "Map", "map[string]int", "String", "Int", <<>>) }

\* the structs: 1 to MaxFields fields of the pool, in any order
Schemas ==
    UNION { { s \in [1..n -> FieldPool] :
                \A i, j \in 1..n : i # j => s[i].name # s[j].name }
            : n \in 1..MaxFields }

Separators == { <<"_">>, <<".">> }

\* the paths of the string-keyed map fields below fields
RECURSIVE MapPaths(_, _)
MapPaths(fields, path) ==
    UNION { LET f == fields[i]
                p == Append(path, f.name)
            IN  IF f.kind = "Struct" THEN MapPaths(f.fields, p)
                ELSE IF f.kind = "Map" /\ f.key = "String" THEN {p}
                ELSE {}
            : i \in 1..Len(fields) }

\* the field descriptor at a path of field names (map keys skipped by the caller)
RECURSIVE FieldAt(_, _)
FieldAt(fields, path) ==
    LET f == fields[CHOOSE i \in 1..Len(fields) : fields[i].name = Head(path)]
    IN  IF Len(path) = 1 THEN f ELSE FieldAt(f.fields, Tail(path))

EmptyMap == [x \in {} |-> 0]

----------------------------------------------------------------------------
(* NewMetricTags, the application's updates, ToJSON                        *)

\* nothing has run yet: the caller holds a struct, a registry and a separator
BindInit ==
    /\ metricsData \in Schemas
    /\ mapKeys \in [MapPaths(metricsData, <<>>) -> SUBSET Keys]
    /\ registry \in Registries
    /\ separator \in Separators
    /\ fieldVal = EmptyMap
    /\ boundKeys = EmptyMap
    /\ bindState = "new"
    /\ registries = [r \in Registries |-> EmptyMap]
    /\ registerLog = <<>>
    /\ instruments = <<>>
    /\ snapshot = [taken |-> FALSE, json |-> EmptyMap]

\* the state the traversal starts from
BindStart ==
    [log |-> registerLog, regs |-> registries, insts |-> instruments,
     vals |-> fieldVal, panicked |-> FALSE]

\* NewMetricTags(metricsData, updateHandler, interval, registry, separator):
\* fills the handle and runs initializeFieldTagPath over the struct with an
\* empty prefix.  What was registered and set before a panic stays.
NewMetricTags(interval, order) ==
    /\ bindState = "new"
    /\ LET st == initializeFieldTagPath(metricsData, <<>>, <<>>, 1, order, BindStart)
       IN  /\ registerLog' = st.log
           /\ registries' = st.regs
           /\ instruments' = st.insts
           /\ fieldVal' = st.vals
           /\ bindState' = IF st.panicked THEN "panicked" ELSE "bound"
    /\ boundKeys' = mapKeys
    /\ flushInterval' = interval
    /\ StatsMemCollection' = DefaultStatsMemCollection
    /\ StatsGCCollection' = DefaultStatsGCCollection
    /\ UNCHANGED <<metricsData, mapKeys, registry, separator, snapshot>>

RECURSIVE TotalCount(_)
TotalCount(insts) ==
    IF insts = <<>> THEN 0 ELSE Head(insts).count + TotalCount(Tail(insts))

\* the application updates a counter through its field: m.Counter.Inc(delta)
Inc(path, delta) ==
    /\ bindState = "bound"
    /\ path \in DOMAIN fieldVal
    /\ instruments[fieldVal[path]].kind = "Counter"
    /\ TotalCount(instruments) + delta <= MaxCount
    /\ instruments' = [instruments EXCEPT ![fieldVal[path]].count = @ + delta]
    /\ UNCHANGED <<metricsData, mapKeys, fieldVal, boundKeys, registry, separator,
                   bindState, registries, registerLog, snapshot>>

\* the application adds an entry to a map of the struct after binding:
\* m.Map[k] = &subMetrics{}
MapInsert(path, k) ==
    /\ bindState = "bound"
    /\ path \in DOMAIN mapKeys
    /\ FieldAt(metricsData, path).elem = "PtrStruct"
    /\ k \notin mapKeys[path]
    /\ mapKeys' = [mapKeys EXCEPT ![path] = @ \cup {k}]
    /\ UNCHANGED <<metricsData, fieldVal, boundKeys, registry, separator,
                   bindState, registries, registerLog, instruments, snapshot>>

\* metrics.WriteJSONOnce(m.registry, buf): every instrument of m.registry
\* under its name (here: its count)
WriteJSONOnce(r) ==
    [name \in DOMAIN registries[r] |-> instruments[registries[r][name]].count]

\* ToJSON
ToJSON ==
    /\ bindState = "bound"
    /\ snapshot' = [taken |-> TRUE, json |-> WriteJSONOnce(registry)]
    /\ UNCHANGED <<metricsData, mapKeys, fieldVal, boundKeys, registry, separator,
                   bindState, registries, registerLog, instruments>>

\* the loop is not run in the binder's specification
LoopIdle ==
    /\ now = 0 /\ runPc = "idle" /\ stopPc = "idle"
    /\ updateTime = 0 /\ gcTime = 0 /\ memTime = 0 /\ deadline = 0
    /\ flushCount = 0 /\ flushReturned = 0 /\ finalFlush = "none"
    /\ gcCaptures = 0 /\ memCaptures = 0 /\ runtimeRegistered = FALSE
    /\ flushAtStop = 0 /\ runPcAtStop = ""

BindSpecInit ==
    /\ BindInit
    /\ LoopIdle
    /\ flushInterval = 0 /\ StatsGCCollection = 0 /\ StatsMemCollection = 0

BindNext ==
    \/ \E interval \in {1}, order \in KeyOrders :
          /\ NewMetricTags(interval, order)
          /\ UNCHANGED <<now, runPc, stopPc, updateTime, gcTime, memTime, deadline,
                         flushCount, flushReturned, finalFlush, gcCaptures,
                         memCaptures, runtimeRegistered, flushAtStop, runPcAtStop>>
    \/ \E path \in DOMAIN fieldVal, delta \in 1..2 :
          Inc(path, delta) /\ UNCHANGED loopVars
    \/ \E path \in DOMAIN mapKeys, k \in Keys :
          MapInsert(path, k) /\ UNCHANGED loopVars
    \/ ToJSON /\ UNCHANGED loopVars

BindSpec == BindSpecInit /\ [][BindNext]_vars

----------------------------------------------------------------------------
(* Run and Stop                                                            *)

\* a struct shaped like the test's testMetrics, cut down to one field of each
\* shape: struct { Sub struct { C metrics.Counter `metric:"c"` } `metric:"sub"`;
\*                 Gauge metrics.Gauge; Map map[string]*subMetrics }
TestMetrics ==
    << Struct(<<"S","u","b">>, <<"s","u","b">>, << Counter(<<"C">>, <<"c">>) >>),
       Gauge(<<"G","a","u","g","e">>, <<>>),
       Map(<<"M","a","p">>, <<>>, << Counter(<<"C">>, <<>>) >>) >>

\* the sampling intervals the caller may set on the handle before Run
StatsChoices == (1..MaxStats) \cup {DefaultStatsGCCollection, DefaultStatsMemCollection}

\* The handle as the test builds it: NewMetricTags(m, h, interval,
\* metrics.DefaultRegistry, "_") over a struct whose map holds two entries.
\* The clock is read relative to the moment Run starts.
Init ==
    /\ metricsData = TestMetrics
    /\ mapKeys = (<< <<"M","a","p">> >> :> Keys)
    /\ boundKeys = mapKeys
    /\ registry = "DefaultRegistry"
    /\ separator = <<"_">>
    /\ snapshot = [taken |-> FALSE, json |-> EmptyMap]
    /\ \E order \in KeyOrders :
          LET st == initializeFieldTagPath(TestMetrics, <<>>, <<>>, 1, order,
                        [log |-> <<>>, regs |-> [r \in Registries |-> EmptyMap],
                         insts |-> <<>>, vals |-> EmptyMap, panicked |-> FALSE])
          IN  /\ registerLog = st.log
              /\ registries = st.regs
              /\ instruments = st.insts
              /\ fieldVal = st.vals
              /\ bindState = IF st.panicked THEN "panicked" ELSE "bound"
    /\ flushInterval \in 1..MaxFlush
    /\ StatsMemCollection = DefaultStatsMemCollection
    /\ StatsGCCollection = DefaultStatsGCCollection
    /\ LoopIdle

\* mTags.StatsGCCollection = ...; mTags.StatsMemCollection = ... before Run
SetStatsCollection(gc, mem) ==
    /\ runPc = "idle" /\ stopPc = "idle"
    /\ StatsGCCollection' = gc
    /\ StatsMemCollection' = mem
    /\ UNCHANGED <<flushInterval, now, runPc, stopPc, updateTime, gcTime, memTime,
                   deadline, flushCount, flushReturned, finalFlush, gcCaptures,
                   memCaptures, runtimeRegistered, flushAtStop, runPcAtStop>>

\* time passes (the clock is not followed before Run starts)
Tick ==
    /\ runPc # "idle"
    /\ now < MaxTime
    /\ now' = now + 1
    /\ UNCHANGED <<flushInterval, StatsGCCollection, StatsMemCollection, runPc,
                   stopPc, updateTime, gcTime, memTime, deadline, flushCount,
                   flushReturned, finalFlush, gcCaptures, memCaptures,
                   runtimeRegistered, flushAtStop, runPcAtStop>>

\* go m.Run(): RegisterDebugGCStats, RegisterRuntimeMemStats,
\* updateTime := m.nowHandler(); gcTime, memTime := updateTime, updateTime
RunStart ==
    /\ runPc = "idle"
    /\ bindState = "bound"
    /\ runtimeRegistered' = TRUE
    /\ updateTime' = now
    /\ gcTime' = now
    /\ memTime' = now
    /\ runPc' = "loop"
    /\ UNCHANGED <<flushInterval, StatsGCCollection, StatsMemCollection, now,
                   stopPc, deadline, flushCount, flushReturned, finalFlush,
                   gcCaptures, memCaptures, flushAtStop, runPcAtStop>>

\* now.Sub(last) > interval
Elapsed(t, last, interval) == t - last > interval

\* a slip: one timestamp is kept for both categories, so a GC capture also
\* restarts the wait of the memory capture
RunSample_SharedTimestamp ==
    /\ runPc = "loop"
    /\ IF Elapsed(now, gcTime, StatsGCCollection)
       THEN /\ gcCaptures' = gcCaptures + 1
            /\ gcTime' = now
            /\ memTime' = now
            /\ IF Elapsed(now, memTime, StatsMemCollection)
               THEN memCaptures' = memCaptures + 1
               ELSE UNCHANGED memCaptures
       ELSE /\ UNCHANGED <<gcCaptures, gcTime>>
            /\ IF Elapsed(now, memTime, StatsMemCollection)
               THEN memCaptures' = memCaptures + 1 /\ memTime' = now
               ELSE UNCHANGED <<memCaptures, memTime>>
    /\ runPc' = "wait"
    /\ UNCHANGED <<flushInterval, StatsGCCollection, StatsMemCollection, now,
                   stopPc, updateTime, deadline, flushCount, flushReturned,
                   finalFlush, runtimeRegistered, flushAtStop, runPcAtStop>>

\* the top of the loop: now := m.nowHandler(), then the two captures
RunSample ==
    /\ runPc = "loop"
    /\ IF Elapsed(now, gcTime, StatsGCCollection)
       THEN gcCaptures' = gcCaptures + 1 /\ gcTime' = now
       ELSE UNCHANGED <<gcCaptures, gcTime>>
    /\ IF Elapsed(now, memTime, StatsMemCollection)
       THEN memCaptures' = memCaptures + 1 /\ memTime' = now
       ELSE UNCHANGED <<memCaptures, memTime>>
    /\ runPc' = "wait"
    /\ UNCHANGED <<flushInterval, StatsGCCollection, StatsMemCollection, now,
                   stopPc, updateTime, deadline, flushCount, flushReturned,
                   finalFlush, runtimeRegistered, flushAtStop, runPcAtStop>>

\* a slip: the select does not look at quitCh before it parks on the timer
RunSelect_ParkFirst ==
    /\ runPc = "wait"
    /\ deadline' = now + flushInterval
    /\ runPc' = "select"
    /\ UNCHANGED <<flushInterval, StatsGCCollection, StatsMemCollection, now,
                   stopPc, updateTime, gcTime, memTime, flushCount,
                   flushReturned, finalFlush, gcCaptures, memCaptures,
                   runtimeRegistered, flushAtStop, runPcAtStop>>

\* entering the select: time.After(m.flushInterval) starts a timer; a Stop
\* already blocked in its send on quitCh is received from at once (the new
\* timer cannot have fired), otherwise the goroutine parks on both channels
RunSelect ==
    /\ runPc = "wait"
    /\ deadline' = now + flushInterval
    /\ IF stopPc = "send"
       THEN runPc' = "quit" /\ stopPc' = "recv"
       ELSE runPc' = "select" /\ UNCHANGED stopPc
    /\ UNCHANGED <<flushInterval, StatsGCCollection, StatsMemCollection, now,
                   updateTime, gcTime, memTime, flushCount, flushReturned,
                   finalFlush, gcCaptures, memCaptures, runtimeRegistered,
                   flushAtStop, runPcAtStop>>

\* a slip: the timer case is taken without waiting for the interval
TimerFire_Early ==
    /\ runPc = "select"
    /\ runPc' = "fired"
    /\ UNCHANGED <<flushInterval, StatsGCCollection, StatsMemCollection, now,
                   stopPc, updateTime, gcTime, memTime, deadline, flushCount,
                   flushReturned, finalFlush, gcCaptures, memCaptures,
                   runtimeRegistered, flushAtStop, runPcAtStop>>

\* the timer fires, no earlier than flushInterval after it was started, and
\* wakes the parked goroutine with case <-time.After(m.flushInterval)
TimerFire ==
    /\ runPc = "select"
    /\ now >= deadline
    /\ runPc' = "fired"
    /\ UNCHANGED <<flushInterval, StatsGCCollection, StatsMemCollection, now,
                   stopPc, updateTime, gcTime, memTime, deadline, flushCount,
                   flushReturned, finalFlush, gcCaptures, memCaptures,
                   runtimeRegistered, flushAtStop, runPcAtStop>>

\* case <-time.After(m.flushInterval): m.updateHandler() is called
RunFlush ==
    /\ runPc = "fired"
    /\ flushCount' = flushCount + 1
    /\ runPc' = "flush"
    /\ UNCHANGED <<flushInterval, StatsGCCollection, StatsMemCollection, now,
                   stopPc, updateTime, gcTime, memTime, deadline, flushReturned,
                   finalFlush, gcCaptures, memCaptures, runtimeRegistered,
                   flushAtStop, runPcAtStop>>

\* that call returns; the loop goes round
FlushReturn ==
    /\ runPc = "flush"
    /\ flushReturned' = flushReturned + 1
    /\ runPc' = "loop"
    /\ UNCHANGED <<flushInterval, StatsGCCollection, StatsMemCollection, now,
                   stopPc, updateTime, gcTime, memTime, deadline, flushCount,
                   finalFlush, gcCaptures, memCaptures, runtimeRegistered,
                   flushAtStop, runPcAtStop>>

\* a slip: the quit branch acknowledges on quitCh before it calls the handler
RunQuit_AckBeforeFlush ==
    /\ runPc = "quit"
    /\ stopPc = "recv"
    /\ stopPc' = "close"
    /\ flushCount' = flushCount + 1
    /\ finalFlush' = "running"
    /\ runPc' = "final"
    /\ UNCHANGED <<flushInterval, StatsGCCollection, StatsMemCollection, now,
                   updateTime, gcTime, memTime, deadline, flushReturned,
                   gcCaptures, memCaptures, runtimeRegistered, flushAtStop,
                   runPcAtStop>>

\* case <-m.quitCh: m.updateHandler() is called one last time
RunQuit ==
    /\ runPc = "quit"
    /\ flushCount' = flushCount + 1
    /\ finalFlush' = "running"
    /\ runPc' = "final"
    /\ UNCHANGED <<flushInterval, StatsGCCollection, StatsMemCollection, now,
                   stopPc, updateTime, gcTime, memTime, deadline, flushReturned,
                   gcCaptures, memCaptures, runtimeRegistered, flushAtStop,
                   runPcAtStop>>

\* that last call returns
FinalReturn ==
    /\ runPc = "final"
    /\ flushReturned' = flushReturned + 1
    /\ finalFlush' = "returned"
    /\ runPc' = "ack"
    /\ UNCHANGED <<flushInterval, StatsGCCollection, StatsMemCollection, now,
                   stopPc, updateTime, gcTime, memTime, deadline, flushCount,
                   gcCaptures, memCaptures, runtimeRegistered, flushAtStop,
                   runPcAtStop>>

\* a slip: the quit branch acknowledges and, the return missing, goes round
\* the loop again
RunAck_NoReturn ==
    /\ runPc = "ack"
    /\ stopPc = "recv"
    /\ runPc' = "loop"
    /\ stopPc' = "close"
    /\ UNCHANGED <<flushInterval, StatsGCCollection, StatsMemCollection, now,
                   updateTime, gcTime, memTime, deadline, flushCount,
                   flushReturned, finalFlush, gcCaptures, memCaptures,
                   runtimeRegistered, flushAtStop, runPcAtStop>>

\* a slip: the quit branch returns without the send on quitCh
RunAck_NoSend ==
    /\ runPc = "ack"
    /\ runPc' = "done"
    /\ UNCHANGED <<flushInterval, StatsGCCollection, StatsMemCollection, now,
                   stopPc, updateTime, gcTime, memTime, deadline, flushCount,
                   flushReturned, finalFlush, gcCaptures, memCaptures,
                   runtimeRegistered, flushAtStop, runPcAtStop>>

\* m.quitCh <- struct{}{}; return: the send meets Stop's <-m.quitCh
RunAck ==
    /\ runPc = "ack"
    /\ stopPc = "recv"
    /\ runPc' = "done"
    /\ stopPc' = "close"
    /\ UNCHANGED <<flushInterval, StatsGCCollection, StatsMemCollection, now,
                   updateTime, gcTime, memTime, deadline, flushCount,
                   flushReturned, finalFlush, gcCaptures, memCaptures,
                   runtimeRegistered, flushAtStop, runPcAtStop>>

\* a slip: the stop signal does not wake a loop parked on the flush timer; it
\* is only seen the next time the loop enters its select
StopCall_NoWake ==
    /\ stopPc = "idle"
    /\ flushAtStop' = flushCount
    /\ runPcAtStop' = runPc
    /\ stopPc' = "send"
    /\ UNCHANGED <<flushInterval, StatsGCCollection, StatsMemCollection, now,
                   runPc, updateTime, gcTime, memTime, deadline, flushCount,
                   flushReturned, finalFlush, gcCaptures, memCaptures,
                   runtimeRegistered>>

\* Stop is called: m.quitCh <- struct{}{}.  A Run parked in its select
\* receives at once; otherwise the caller blocks in the send.
StopCall ==
    /\ stopPc = "idle"
    /\ flushAtStop' = flushCount
    /\ runPcAtStop' = runPc
    /\ IF runPc = "select"
       THEN runPc' = "quit" /\ stopPc' = "recv"
       ELSE stopPc' = "send" /\ UNCHANGED runPc
    /\ UNCHANGED <<flushInterval, StatsGCCollection, StatsMemCollection, now,
                   updateTime, gcTime, memTime, deadline, flushCount,
                   flushReturned, finalFlush, gcCaptures, memCaptures,
                   runtimeRegistered>>

\* close(m.quitCh) and Stop returns
StopReturn ==
    /\ stopPc = "close"
    /\ stopPc' = "returned"
    /\ UNCHANGED <<flushInterval, StatsGCCollection, StatsMemCollection, now,
                   runPc, updateTime, gcTime, memTime, deadline, flushCount,
                   flushReturned, finalFlush, gcCaptures, memCaptures,
                   runtimeRegistered, flushAtStop, runPcAtStop>>

RunStep ==
    \/ RunStart \/ RunSample \/ RunSelect \/ TimerFire \/ RunFlush
    \/ FlushReturn \/ RunQuit \/ FinalReturn \/ RunAck

Next ==
    \/ \E gc, mem \in StatsChoices : SetStatsCollection(gc, mem) /\ UNCHANGED bindVars
    \/ Tick /\ UNCHANGED bindVars
    \/ RunStart /\ UNCHANGED bindVars
    \/ RunSample /\ UNCHANGED bindVars
    \/ RunSelect /\ UNCHANGED bindVars
    \/ TimerFire /\ UNCHANGED bindVars
    \/ RunFlush /\ UNCHANGED bindVars
    \/ FlushReturn /\ UNCHANGED bindVars
    \/ RunQuit /\ UNCHANGED bindVars
    \/ FinalReturn /\ UNCHANGED bindVars
    \/ RunAck /\ UNCHANGED bindVars
    \/ StopCall /\ UNCHANGED bindVars
    \/ StopReturn /\ UNCHANGED bindVars

Spec == Init /\ [][Next]_vars

\* Run is started once, the scheduler runs a goroutine that can step, timers
\* fire, the flush callback returns, and time passes
FairSpec ==
    /\ Spec
    /\ WF_vars(RunStep /\ UNCHANGED bindVars)
    /\ WF_vars(StopReturn /\ UNCHANGED bindVars)
    /\ WF_vars(Tick /\ UNCHANGED bindVars)

----------------------------------------------------------------------------
(* What the binder is claimed to do                                        *)

\* a field's segment: its "metric" annotation if it has one, else its
\* identifier in lower case
ClaimSegment(f) == IF f.tag # <<>> THEN f.tag ELSE ToLower(f.name)

\* the segments from the root to the field at a path; a map entry's key is a
\* segment of its own between the map's segment and what lies below
RECURSIVE PathSegments(_, _)
PathSegments(fields, path) ==
    LET f == fields[CHOOSE i \in 1..Len(fields) : fields[i].name = Head(path)]
    IN  IF Len(path) = 1 THEN << ClaimSegment(f) >>
        ELSE IF f.kind = "Map"
        THEN << ClaimSegment(f), path[2] >> \o PathSegments(f.fields, Tail(Tail(path)))
        ELSE << ClaimSegment(f) >> \o PathSegments(f.fields, Tail(path))

\* the segments joined by the separator
RECURSIVE Join(_, _)
Join(segs, sep) ==
    IF Len(segs) = 1 THEN segs[1] ELSE segs[1] \o sep \o Join(Tail(segs), sep)

\* the name a leaf at a path is claimed to get
DerivedName(path) == Join(PathSegments(metricsData, path), separator)

\* the paths of the instrument-typed leaves reachable through structs only
RECURSIVE NestedLeaves(_, _)
NestedLeaves(fields, path) ==
    UNION { LET f == fields[i]
                p == Append(path, f.name)
            IN  IF f.kind = "Struct" THEN NestedLeaves(f.fields, p)
                ELSE IF InstrumentKind(f.typ) # "" THEN {p}
                ELSE {}
            : i \in 1..Len(fields) }

\* no field of the struct, at any depth, is a map
RECURSIVE NoCollections(_)
NoCollections(fields) ==
    \A i \in 1..Len(fields) :
        /\ fields[i].kind # "Map"
        /\ fields[i].kind = "Struct" => NoCollections(fields[i].fields)

\* the paths of the fields the binder has no branch for: not a struct, not a
\* string-keyed map of struct pointers, not an instrument
RECURSIVE UnsupportedFields(_, _)
UnsupportedFields(fields, path) ==
    UNION { LET f == fields[i]
                p == Append(path, f.name)
            IN  IF f.kind = "Struct" THEN UnsupportedFields(f.fields, p)
                ELSE IF f.kind = "Map" /\ f.key = "String" /\ f.elem = "PtrStruct"
                THEN {}
                ELSE IF InstrumentKind(f.typ) # "" THEN {}
                ELSE {p}
            : i \in 1..Len(fields) }

\* the Register calls made for the field at a path
CallsFor(path) == {j \in DOMAIN registerLog : registerLog[j].path = path}

\* path q lies at or below path p
Below(p, q) == Len(q) >= Len(p) /\ SubSeq(q, 1, Len(p)) = p

\* C3: after NewMetricTags returns, the registry passed to it holds every leaf
\* instrument field's instrument under the field's derived name, whichever
\* registry was passed
C3_RegisteredInGivenRegistry ==
    bindState = "bound" =>
        \A p \in DOMAIN fieldVal :
            /\ DerivedName(p) \in DOMAIN registries[registry]
            /\ instruments[registries[registry][DerivedName(p)]].kind
                  = InstrumentKind(FieldAt(metricsData,
                        SelectSeq(p, LAMBDA x : x \notin Keys)).typ)

C5_MapEntries ==
    bindState = "bound" =>
        \A p \in DOMAIN mapKeys :
            LET coll == FieldAt(metricsData, p)
            IN  coll.elem = "PtrStruct" =>
                  \A k \in mapKeys[p], i \in 1..Len(coll.fields) :
                      LET leaf == coll.fields[i]
                          lp   == p \o << k, leaf.name >>
                      IN  IF k \in boundKeys[p]
                          THEN /\ Cardinality(CallsFor(lp)) = 1
                               /\ \A j \in CallsFor(lp) :
                                     /\ registerLog[j].name =
                                          Join(PathSegments(metricsData, p), separator)
                                            \o separator \o k \o separator
                                            \o ClaimSegment(leaf)
                                     /\ lp \in DOMAIN fieldVal
                                     /\ fieldVal[lp] = registerLog[j].id
                          ELSE /\ CallsFor(lp) = {}
                               /\ lp \notin DOMAIN fieldVal

\* C5's case: a map bound with one entry, a second entry inserted afterwards
C5_Witness ==
    /\ bindState = "bound"
    /\ \E p \in DOMAIN mapKeys :
          /\ FieldAt(metricsData, p).elem = "PtrStruct"
          /\ boundKeys[p] = {<<"t","1">>}
          /\ mapKeys[p] = Keys
          /\ \E j \in DOMAIN registerLog :
                registerLog[j].name = <<"m","a","p",".","t","1",".","c">>

\* C7: for every leaf field populated by binding (here: of a struct whose
\* leaves derive distinct names), the instrument the field holds is the one
\* ToJSON reads under the field's derived name, so the snapshot reports the
\* updates made through the field
C7_SnapshotReadsFieldInstrument ==
    (/\ bindState = "bound"
     /\ \A p, q \in DOMAIN fieldVal : p # q => DerivedName(p) # DerivedName(q)) =>
        \A p \in DOMAIN fieldVal :
            /\ DerivedName(p) \in DOMAIN registries[registry]
            /\ registries[registry][DerivedName(p)] = fieldVal[p]
            /\ WriteJSONOnce(registry)[DerivedName(p)] = instruments[fieldVal[p]].count

\* C8: NewMetricTags runs to completion on every struct, and a field that is
\* not a struct, a string-keyed map of struct pointers or an instrument gets
\* no registration and keeps its value
C8_BindingNeverFatal ==
    /\ bindState # "panicked"
    /\ bindState = "bound" =>
          \A p \in UnsupportedFields(metricsData, <<>>) :
              \A j \in DOMAIN registerLog, q \in DOMAIN fieldVal :
                  ~Below(p, registerLog[j].path) /\ ~Below(p, q)

----------------------------------------------------------------------------
(* What Run and Stop are claimed to do                                     *)

\* an interval flush was pending when Stop was called: the flush timer had
\* fired and the callback it triggers had not been called yet
PendingAtStop == runPcAtStop = "fired"

\* C1: Stop has not returned (nor got past its wait for the loop) before the
\* flush callback call made on the stop signal has returned, along with every
\* earlier call of it
C1_StopAfterFinalFlush ==
    stopPc \in {"close", "returned"} =>
        /\ finalFlush = "returned"
        /\ flushReturned = flushCount

\* C1's case: Stop has returned after a run with an interval flush before
\* the final one
C1_Witness ==
    /\ stopPc = "returned"
    /\ finalFlush = "returned"
    /\ flushCount >= 2

\* C2: when no interval flush was pending as Stop was called, the flush
\* callback is called exactly once more by the time Stop returns (and never
\* more than once more in between)
C2_ExactlyOneFinalFlush ==
    (stopPc # "idle" /\ ~PendingAtStop) =>
        /\ flushCount <= flushAtStop + 1
        /\ stopPc \in {"close", "returned"} => flushCount = flushAtStop + 1

\* C2's case: Stop, called while the loop was parked in its select after an
\* earlier interval flush, has returned
C2_Witness ==
    /\ stopPc = "returned"
    /\ runPcAtStop = "select"
    /\ flushAtStop >= 1
    /\ flushCount = flushAtStop + 1

\* C6: a slow flush interval does not hold up sampling.  Whenever a GC (or
\* memory) capture of a sampling interval shorter than the flush interval is
\* due while the loop waits for a flush interval that has not elapsed, the loop
\* can go on to that capture: it is not blocked until the flush timer fires
C6_SamplingNotStarved ==
    (/\ runPc = "select" /\ stopPc = "idle" /\ now < deadline
     /\ \/ StatsGCCollection < flushInterval
           /\ Elapsed(now, gcTime, StatsGCCollection)
        \/ StatsMemCollection < flushInterval
           /\ Elapsed(now, memTime, StatsMemCollection))
        => ENABLED (RunStep /\ UNCHANGED bindVars)

\* no flush callback call is made before one flush interval has passed since
\* Run started, unless Stop was called
NoEarlyFlush ==
    (flushCount >= 1 /\ stopPc = "idle") => now >= updateTime + flushInterval

\* C9: with no Stop requested, a started Run reaches its select, and a select
\* whose flush interval ends within the clock's range leads to a call of the
\* flush callback; and no call is made before the first interval has elapsed
C9_FirstIntervalFlush ==
    /\ []NoEarlyFlush
    /\ (runPc \in {"loop", "wait"} /\ flushCount = 0 /\ stopPc = "idle")
          ~> (runPc = "select" \/ stopPc # "idle")
    /\ (runPc = "select" /\ deadline <= MaxTime /\ stopPc = "idle")
          ~> (flushCount >= 1 \/ stopPc # "idle")

\* C9's case: the first interval flush has been called, Stop never was
C9_Witness ==
    /\ stopPc = "idle"
    /\ runPc = "flush"
    /\ flushCount = 1
    /\ now = updateTime + flushInterval

\* C10: once Stop is called it returns and the Run loop terminates, wherever
\* the loop was when Stop was called
C10_StopTerminates ==
    (stopPc # "idle") ~> (stopPc = "returned" /\ runPc = "done")

\* C10's case: Stop was called during an interval flush and has returned
C10_Witness ==
    /\ stopPc = "returned"
    /\ runPc = "done"
    /\ runPcAtStop = "flush"

\* C11: when Stop has returned the Run loop has exited, and from then on no
\* step calls the flush callback or captures GC or memory statistics
C11_StoppedIsTerminal ==
    /\ [](stopPc = "returned" => runPc = "done")
    /\ [][stopPc = "returned" =>
            /\ flushCount' = flushCount
            /\ gcCaptures' = gcCaptures
            /\ memCaptures' = memCaptures
            /\ runPc' = "done"]_vars

\* C11's case: Stop returned after a run with an interval flush and a GC
\* capture, and time has gone on past a further flush interval since
C11_Witness ==
    /\ stopPc = "returned"
    /\ flushCount >= 2
    /\ gcCaptures >= 1
    /\ now > deadline + flushInterval

\* the place in the Register calls of the call made for the leaf at a path
CallIndex(path) == CHOOSE j \in DOMAIN registerLog : registerLog[j].path = path

\* C12: when distinct leaf fields derive the same full name, binding completes
\* and the registry of the handle holds under that name the instrument of the
\* field visited last, the instrument that field itself holds
C12_LastWriteWins ==
    bindState = "bound" =>
        \A p, q \in DOMAIN fieldVal :
            (/\ p # q
             /\ DerivedName(p) = DerivedName(q)
             /\ \A o \in DOMAIN fieldVal :
                   DerivedName(o) = DerivedName(q) => CallIndex(o) <= CallIndex(q))
            => /\ DerivedName(q) \in DOMAIN registries[registry]
               /\ registries[registry][DerivedName(q)] = fieldVal[q]

\* the (full name, instrument kind) pairs of a sequence of Register calls
Registrations(log) == {<<log[j].name, log[j].kind>> : j \in DOMAIN log}

\* what a binding of the struct as it is, from nothing registered, registers
\* when val.MapKeys() returns the keys in the given order
BindingUnder(order) ==
    initializeFieldTagPath(metricsData, <<>>, <<>>, 1, order,
        [log |-> <<>>, regs |-> [r \in Registries |-> EmptyMap],
         insts |-> <<>>, vals |-> EmptyMap, panicked |-> FALSE])

\* C13: for a fixed struct and fixed map keys, the set of (full name,
\* instrument kind) registrations a binding makes is the same whatever the
\* order in which the keys of a map are visited: the binding that ran and a
\* binding under any other order register the same set
C13_OrderIndependent ==
    (bindState # "new" /\ mapKeys = boundKeys) =>
        \A order \in KeyOrders :
            Registrations(BindingUnder(order).log) = Registrations(registerLog)

\* C13's case: a bound struct with a map of two entries, so that the two key
\* orders visit its entries differently
C13_Witness ==
    /\ bindState = "bound"
    /\ \E p \in DOMAIN mapKeys :
          /\ FieldAt(metricsData, p).elem = "PtrStruct"
          /\ boundKeys[p] = Keys
          /\ mapKeys[p] = Keys
    /\ Cardinality(Registrations(registerLog)) >= 3

\* a step is a loop pass when it takes Run from the top of the loop to its wait
LoopPass == runPc = "loop" /\ runPc' = "wait"

\* C14: GC statistics are captured only on a loop pass, at most once a pass,
\* and on a pass exactly when more than the GC interval has passed since the
\* last GC capture (since Run started, when there has been none); the last-GC
\* timestamp becomes the current time exactly when a capture happens and is
\* otherwise left alone; memory statistics follow the same rule against their
\* own interval and timestamp, so neither category's capture or timestamp
\* depends on the other's interval, timestamp or capture
C14_IndependentSampling ==
    /\ [](runPc # "idle" =>
            /\ (gcCaptures = 0 => gcTime = updateTime)
            /\ (memCaptures = 0 => memTime = updateTime))
    /\ [][runPc # "idle" =>
            /\ gcCaptures' \in {gcCaptures, gcCaptures + 1}
            /\ memCaptures' \in {memCaptures, memCaptures + 1}
            /\ gcCaptures' = gcCaptures + 1 <=>
                  (LoopPass /\ now - gcTime > StatsGCCollection)
            /\ memCaptures' = memCaptures + 1 <=>
                  (LoopPass /\ now - memTime > StatsMemCollection)
            /\ gcTime' = IF gcCaptures' = gcCaptures + 1 THEN now ELSE gcTime
            /\ memTime' = IF memCaptures' = memCaptures + 1 THEN now ELSE memTime
         ]_vars

\* C14's case: the two intervals differ, both categories have been captured,
\* one more often than the other and last at a different time
C14_Witness ==
    /\ StatsGCCollection # StatsMemCollection
    /\ gcCaptures >= 1
    /\ memCaptures >= 2
    /\ gcCaptures # memCaptures
    /\ gcTime # memTime

\* C15: when Stop is called before Run has started, Stop stays blocked in its
\* send for as long as Run is not started; the started Run never parks on the
\* flush timer nor takes the timer branch, it calls the flush callback exactly
\* once, on the stop branch, and Stop is past its wait only when Run has
\* exited after that one call; and once Run has started Stop does return
C15_StopBeforeRun ==
    /\ [](runPcAtStop = "idle" =>
            /\ (runPc = "idle" => stopPc = "send")
            /\ runPc \notin {"select", "fired", "flush"}
            /\ flushCount = (IF runPc \in {"final", "ack", "done"} THEN 1 ELSE 0)
            /\ (stopPc = "recv" <=> runPc \in {"quit", "final", "ack"})
            /\ (stopPc \in {"close", "returned"} => runPc = "done"))
    /\ (runPcAtStop = "idle" /\ runPc # "idle")
          ~> (stopPc = "returned" /\ runPc = "done" /\ flushCount = 1)

\* C15's case: Stop was called before Run and has returned, after a single
\* flush made before a flush interval had passed since Run started
C15_Witness ==
    /\ runPcAtStop = "idle"
    /\ stopPc = "returned"
    /\ runPc = "done"
    /\ flushCount = 1
    /\ now < updateTime + flushInterval

====
